---- MODULE Spec2Model ----
(***************************************************************************)
(* Self-isolation helpers of passt/pasta (isolation.c).                    *)
(*                                                                         *)
(* The process state is the kernel-visible privilege state of the process  *)
(* (capability sets, credentials, open descriptors, namespaces, seccomp    *)
(* mode) plus the position of the running isolation function.  Every       *)
(* system call of the source is one step; its result is chosen by the      *)
(* kernel rules for the current state, or is a failure the kernel may      *)
(* report for reasons outside the process (OtherErrno).                    *)
(***************************************************************************)
EXTENDS Integers, Sequences, FiniteSets, TLC

VARIABLES
    cap_effective,    \* effective capability set of the process (indices 0..63)
    cap_permitted,    \* permitted capability set
    cap_inheritable,  \* inheritable capability set
    cap_bset,         \* capability bounding set
    cur_uid,          \* UID of the process
    cur_gid,          \* GID of the process
    cur_groups,       \* supplementary groups
    fds,              \* open file descriptors
    mnt_ns,           \* mount namespace membership
    root,             \* root directory
    user_ns,          \* user namespace membership
    dumpable,         \* core dumps enabled
    seccomp,          \* installed syscall filter
    pc,               \* position: "idle", "dead" or a point inside a function
    i,                \* loop counter of clamp_caps()
    data,             \* struct __user_cap_data_struct data[CAP_WORDS]
    conf,             \* what the host passes: --fd of argv, target uid and gid,
                      \* use_userns and the userns path
    stage,            \* number of the last stage that returned (0: none)
    hist,             \* the calls made so far, with their arguments
    log,              \* system calls attempted by the current call, with results
    pre,              \* process state when the current call was made
    inany             \* the last call of an inany.c function: arguments and results

capvars == <<cap_effective, cap_permitted, cap_inheritable, cap_bset>>
idvars  == <<cur_uid, cur_gid, cur_groups>>
nsvars  == <<mnt_ns, root, user_ns, dumpable, seccomp>>
vars    == <<cap_effective, cap_permitted, cap_inheritable, cap_bset,
             cur_uid, cur_gid, cur_groups, fds,
             mnt_ns, root, user_ns, dumpable, seccomp,
             pc, i, data, conf, stage, hist, log, pre, inany>>

----------------------------------------------------------------------------
(* Bounds of the model *)

\* calls made in one behaviour
MaxCalls == 4
\* highest descriptor the parent may leak
MaxFd == 7
\* UIDs and GIDs range over 0..MaxId
MaxId == 1
\* highest capability the running kernel has allocated (CAP_LAST_CAP)
CapLastCap == 40

(* Program constants *)
CAP_WORDS == 2
CAP_SETGID == 6
CAP_SETUID == 7
CAP_SETPCAP == 8

\* capabilities the starting states and keep-masks are drawn from: one
\* ordinary capability of the first word, the three the code depends on,
\* and the capability of the second word that shares bit 2 with the first
CapPool == {2, CAP_SETGID, CAP_SETUID, CAP_SETPCAP, 34}

WordIndices == 0 .. (CAP_WORDS - 1)
WordBits == 0 .. 31

----------------------------------------------------------------------------
(* Kernel side of capget()/capset(): 64-bit sets <-> two 32-bit words *)

WordOf(S, w) == {b \in WordBits : (b + 32 * w) \in S}

OfWords(f) == UNION {{b + 32 * w : b \in f[w]} : w \in WordIndices}

\* what capget() stores in data[]
CapGetData ==
    [w \in WordIndices |->
        [effective   |-> WordOf(cap_effective, w),
         permitted   |-> WordOf(cap_permitted, w),
         inheritable |-> WordOf(cap_inheritable, w)]]

DataEffective(dt)   == OfWords([w \in WordIndices |-> dt[w].effective])
DataPermitted(dt)   == OfWords([w \in WordIndices |-> dt[w].permitted])
DataInheritable(dt) == OfWords([w \in WordIndices |-> dt[w].inheritable])

\* the kernel's rules for capset(): permitted cannot grow, effective stays
\* within the new permitted set, inheritable cannot gain a capability that is
\* neither permitted nor already inheritable
CapSetAllowed(dt) ==
    /\ DataPermitted(dt) \subseteq cap_permitted
    /\ DataEffective(dt) \subseteq DataPermitted(dt)
    /\ DataInheritable(dt) \subseteq (cap_inheritable \cup cap_permitted)

\* a failure reported for a reason that lies outside the process state
OtherErrno(sys) ==
    CASE sys = "setgroups" -> "ENOMEM"
      [] sys = "setgid"    -> "EINVAL"
      [] sys = "setuid"    -> "EAGAIN"
      [] sys = "prctl"     -> "ENOSYS"
      [] OTHER             -> "EFAULT"

Last(s) == s[Len(s)]

\* state of the process as recorded when a call is made
Snapshot ==
    [effective |-> cap_effective, permitted |-> cap_permitted,
     inheritable |-> cap_inheritable, bset |-> cap_bset,
     uid |-> cur_uid, gid |-> cur_gid, groups |-> cur_groups, fds |-> fds,
     mnt_ns |-> mnt_ns, root |-> root, user_ns |-> user_ns,
     dumpable |-> dumpable, seccomp |-> seccomp]

NoData == [w \in WordIndices |-> [effective |-> {}, permitted |-> {}, inheritable |-> {}]]

\* the four stages, in the order of the "Theory of Operation"
StageOrder == <<"isolate_initial", "isolate_user", "isolate_prefork", "isolate_postfork">>

StageOf(fn) ==
    IF \E k \in 1..Len(StageOrder) : StageOrder[k] = fn
    THEN CHOOSE k \in 1..Len(StageOrder) : StageOrder[k] = fn
    ELSE 0

\* mutant: isolate_initial() goes on into isolate_user() instead of returning
ReturnTo_chain(fn) == IF fn = "isolate_initial" THEN "setgroups" ELSE "idle"

\* where control goes at the end of a function: back to the caller
ReturnTo(fn) == "idle"

\* a function is entered: the call is recorded, the per-call log restarts
Enter(fn, arg, at) ==
    /\ pc = "idle"
    /\ Len(hist) < MaxCalls
    /\ hist' = Append(hist, [fn |-> fn, arg |-> arg])
    /\ log' = <<>>
    /\ pre' = Snapshot
    /\ pc' = at
    /\ UNCHANGED <<conf, stage>>

\* mutant: the error is reported but the process is not terminated, the
\* function returns to its caller
Die_warn(sys, arg, err) ==
    /\ pc' = "idle"
    /\ log' = Append(log, <<sys, arg, err>>)
    /\ UNCHANGED stage

\* die_perror(): the process terminates, nothing runs afterwards
Die(sys, arg, err) ==
    /\ pc' = "dead"
    /\ log' = Append(log, <<sys, arg, err>>)
    /\ UNCHANGED stage

\* the system call is over and the function goes on at `next`
Continue(sys, arg, res, next) ==
    /\ pc' = next
    /\ log' = Append(log, <<sys, arg, res>>)
    /\ UNCHANGED stage

\* the function returns; a stage that returns is the last stage done
Return(fn) ==
    /\ pc' = ReturnTo(fn)
    /\ stage' = IF StageOf(fn) = 0 THEN stage ELSE StageOf(fn)

\* the system call is over and it was the last statement of the function
Finish(sys, arg, res, fn) ==
    /\ log' = Append(log, <<sys, arg, res>>)
    /\ Return(fn)

----------------------------------------------------------------------------
(* drop_caps_ep_except() *)

\* mutant: the words are taken in the opposite order, keep >> (32 * (1 - i))
Mask_swapped(keep, w) == {b \in WordBits : (b + 32 * (1 - w)) \in keep}

\* mutant: the shift is left out, mask = keep for both words
Mask_noshift(keep, w) == {b \in WordBits : b \in keep}

\* uint32_t mask = keep >> (32 * i)
Mask(keep, w) == {b \in WordBits : (b + 32 * w) \in keep}

\* mutant: ^= in the place of &=
DropLoop_xor(dt, keep) ==
    [w \in WordIndices |->
        [dt[w] EXCEPT
            !.effective = (@ \ WordOf(keep, w)) \cup (WordOf(keep, w) \ @),
            !.permitted = (@ \ WordOf(keep, w)) \cup (WordOf(keep, w) \ @)]]

\* mutant: |= in the place of &=
DropLoop_or(dt, keep) ==
    [w \in WordIndices |->
        [dt[w] EXCEPT !.effective = @ \cup WordOf(keep, w),
                      !.permitted = @ \cup WordOf(keep, w)]]

\* mutant: the loop masks data[i].inheritable as well
DropLoop_inh(dt, keep) ==
    [w \in WordIndices |->
        [dt[w] EXCEPT !.effective = @ \cap Mask(keep, w),
                      !.permitted = @ \cap Mask(keep, w),
                      !.inheritable = @ \cap Mask(keep, w)]]

\* the loop over the CAP_WORDS words of data[]
DropLoop(dt, keep) ==
    [w \in WordIndices |->
        [dt[w] EXCEPT !.effective = @ \cap Mask(keep, w),
                      !.permitted = @ \cap Mask(keep, w)]]

\* results capset() can have for the data passed to it
CapSetResults(dt) ==
    IF CapSetAllowed(dt) THEN {"OK", OtherErrno("capset")} ELSE {"EPERM"}

\* the kernel installs the three sets of data[]
CapSetApply(dt) ==
    /\ cap_effective' = DataEffective(dt)
    /\ cap_permitted' = DataPermitted(dt)
    /\ cap_inheritable' = DataInheritable(dt)

drop_caps_ep_except(K) ==
    /\ Enter("drop_caps_ep_except", K, "drop_capget")
    /\ UNCHANGED <<capvars, idvars, fds, nsvars, i, data, inany>>

drop_capget ==
    /\ pc = "drop_capget"
    /\ \E r \in {"OK", OtherErrno("capget")} :
          IF r = "OK"
          THEN /\ data' = DropLoop(CapGetData, Last(hist).arg)
               /\ Continue("capget", 0, r, "drop_capset")
          ELSE /\ Die("capget", 0, r)
               /\ UNCHANGED data
    /\ UNCHANGED <<capvars, idvars, fds, nsvars, i, conf, hist, pre, inany>>

drop_capset ==
    /\ pc = "drop_capset"
    /\ \E r \in CapSetResults(data) :
          IF r = "OK"
          THEN /\ CapSetApply(data)
               /\ Finish("capset", 0, r, "drop_caps_ep_except")
          ELSE /\ Die("capset", 0, r)
               /\ UNCHANGED <<cap_effective, cap_permitted, cap_inheritable>>
    /\ UNCHANGED <<cap_bset, idvars, fds, nsvars, i, data, conf, hist, pre,
                   inany>>

----------------------------------------------------------------------------
(* clamp_caps() *)

\* mutant: the loop stops after the first word, i < 32
ClampLoopCond_32(n) == n < 32

\* for (i = 0; i < 64; i++)
ClampLoopCond(n) == n < 64

\* mutant: EINVAL is not ignored
ClampIgnored_eperm(err) == err = "EPERM"

\* the errno values of prctl(PR_CAPBSET_DROP) the loop carries on after
ClampIgnored(err) == err \in {"EINVAL", "EPERM"}

\* prctl(PR_CAPBSET_DROP, c): needs CAP_SETPCAP, then an allocated capability
PrctlDropResults(c) ==
    IF CAP_SETPCAP \notin cap_effective THEN {"EPERM", OtherErrno("prctl")}
    ELSE IF c > CapLastCap THEN {"EINVAL", OtherErrno("prctl")}
    ELSE {"OK", OtherErrno("prctl")}

\* mutant: the loop clears data[i].effective as well
ClampLoop_eff(dt) ==
    [w \in WordIndices |-> [dt[w] EXCEPT !.inheritable = {}, !.effective = {}]]

\* the second loop: data[i].inheritable = 0
ClampLoop(dt) == [w \in WordIndices |-> [dt[w] EXCEPT !.inheritable = {}]]

clamp_caps ==
    /\ Enter("clamp_caps", {}, "clamp_prctl")
    /\ i' = 0
    /\ UNCHANGED <<capvars, idvars, fds, nsvars, data, inany>>

clamp_prctl ==
    /\ pc = "clamp_prctl"
    /\ \E r \in PrctlDropResults(i) :
          IF r = "OK" \/ ClampIgnored(r)
          THEN /\ cap_bset' = IF r = "OK" THEN cap_bset \ {i} ELSE cap_bset
               /\ i' = i + 1
               /\ Continue("prctl", i, r,
                           IF ClampLoopCond(i + 1) THEN "clamp_prctl" ELSE "clamp_capget")
          ELSE /\ Die("prctl", i, r)
               /\ UNCHANGED <<cap_bset, i>>
    /\ UNCHANGED <<cap_effective, cap_permitted, cap_inheritable,
                   idvars, fds, nsvars, data, conf, hist, pre, inany>>

clamp_capget ==
    /\ pc = "clamp_capget"
    /\ \E r \in {"OK", OtherErrno("capget")} :
          IF r = "OK"
          THEN /\ data' = ClampLoop(CapGetData)
               /\ Continue("capget", 0, r, "clamp_capset")
          ELSE /\ Die("capget", 0, r)
               /\ UNCHANGED data
    /\ UNCHANGED <<capvars, idvars, fds, nsvars, i, conf, hist, pre, inany>>

clamp_capset ==
    /\ pc = "clamp_capset"
    /\ \E r \in CapSetResults(data) :
          IF r = "OK"
          THEN /\ CapSetApply(data)
               /\ Finish("capset", 0, r, "clamp_caps")
          ELSE /\ Die("capset", 0, r)
               /\ UNCHANGED <<cap_effective, cap_permitted, cap_inheritable>>
    /\ UNCHANGED <<cap_bset, idvars, fds, nsvars, i, data, conf, hist, pre,
                   inany>>

----------------------------------------------------------------------------
(* isolate_initial() *)

\* close_open_files(): every descriptor is closed except the standard
\* streams and the one --fd names (d = -1: no --fd)
close_open_files(F, d) == F \cap ({0, 1, 2} \cup {d})

\* mutant: isolate_initial() without the call of close_open_files()
isolate_initial_body_none(F, d) == F

\* the body of isolate_initial(): close_open_files(argc, argv)
isolate_initial_body(F, d) == close_open_files(F, d)

isolate_initial ==
    /\ Enter("isolate_initial", conf.fd, "initial_close")
    /\ UNCHANGED <<capvars, idvars, fds, nsvars, i, data, inany>>

initial_close ==
    /\ pc = "initial_close"
    /\ \E r \in {"OK", OtherErrno("close_range")} :
          IF r = "OK"
          THEN /\ fds' = isolate_initial_body(fds, conf.fd)
               /\ Finish("close_range", conf.fd, r, "isolate_initial")
          ELSE /\ Die("close_range", conf.fd, r)
               /\ UNCHANGED fds
    /\ UNCHANGED <<capvars, idvars, nsvars, i, data, conf, hist, pre, inany>>

----------------------------------------------------------------------------
(* isolate_user() *)

\* mutant: the UID is set before the GID
UserOrder_uid_first == <<"setgroups", "setuid", "setgid">>

\* the system calls of isolate_user(), in the order of the source
UserOrder == <<"setgroups", "setgid", "setuid">>

\* mutant: every failure of setgroups() is fatal
GroupsIgnored_never(err) == FALSE

\* the errno of setgroups() that is not fatal
GroupsIgnored(err) == err = "EPERM"

\* setgroups(0, NULL) needs CAP_SETGID
SetgroupsResults ==
    IF CAP_SETGID \in cap_effective THEN {"OK", OtherErrno("setgroups")} ELSE {"EPERM"}

\* setgid(g) needs CAP_SETGID unless g is the GID the process has
SetgidResults(g) ==
    IF CAP_SETGID \in cap_effective \/ g = cur_gid
    THEN {"OK", OtherErrno("setgid")} ELSE {"EPERM"}

\* setuid(u) needs CAP_SETUID unless u is the UID the process has
SetuidResults(u) ==
    IF CAP_SETUID \in cap_effective \/ u = cur_uid
    THEN {"OK", OtherErrno("setuid")} ELSE {"EPERM"}

\* the kernel's adjustment of the capability sets when the UID changes:
\* leaving UID 0 clears the permitted and effective sets, becoming UID 0
\* raises the effective set to the permitted set
SetuidEffective(u) ==
    IF cur_uid = 0 /\ u # 0 THEN {}
    ELSE IF cur_uid # 0 /\ u = 0 THEN cap_permitted
    ELSE cap_effective

SetuidPermitted(u) == IF cur_uid = 0 /\ u # 0 THEN {} ELSE cap_permitted

\* the statement after the k-th system call of isolate_user()
UserAfter(k) == IF k < Len(UserOrder) THEN UserOrder[k + 1] ELSE "return"

\* go on after a system call of isolate_user() that did not terminate it
UserProceed(sys, arg, res) ==
    IF UserAfter(Len(log) + 1) = "return"
    THEN Finish(sys, arg, res, "isolate_user")
    ELSE Continue(sys, arg, res, UserAfter(Len(log) + 1))

isolate_user ==
    /\ Enter("isolate_user", <<conf.uid, conf.gid>>, UserOrder[1])
    /\ UNCHANGED <<capvars, idvars, fds, nsvars, i, data, inany>>

user_setgroups ==
    /\ pc = "setgroups"
    /\ \E r \in SetgroupsResults :
          IF r = "OK" \/ GroupsIgnored(r)
          THEN /\ cur_groups' = IF r = "OK" THEN {} ELSE cur_groups
               /\ UserProceed("setgroups", 0, r)
          ELSE /\ Die("setgroups", 0, r)
               /\ UNCHANGED cur_groups
    /\ UNCHANGED <<capvars, cur_uid, cur_gid, fds, nsvars, i, data, conf, hist, pre,
                   inany>>

user_setgid ==
    /\ pc = "setgid"
    /\ \E r \in SetgidResults(conf.gid) :
          IF r = "OK"
          THEN /\ cur_gid' = conf.gid
               /\ UserProceed("setgid", conf.gid, r)
          ELSE /\ Die("setgid", conf.gid, r)
               /\ UNCHANGED cur_gid
    /\ UNCHANGED <<capvars, cur_uid, cur_groups, fds, nsvars, i, data, conf, hist, pre,
                   inany>>

user_setuid ==
    /\ pc = "setuid"
    /\ \E r \in SetuidResults(conf.uid) :
          IF r = "OK"
          THEN /\ cur_uid' = conf.uid
               /\ cap_effective' = SetuidEffective(conf.uid)
               /\ cap_permitted' = SetuidPermitted(conf.uid)
               /\ UserProceed("setuid", conf.uid, r)
          ELSE /\ Die("setuid", conf.uid, r)
               /\ UNCHANGED <<cur_uid, cap_effective, cap_permitted>>
    /\ UNCHANGED <<cap_inheritable, cap_bset, cur_gid, cur_groups, fds, nsvars,
                   i, data, conf, hist, pre, inany>>

----------------------------------------------------------------------------
(* isolate_prefork() and isolate_postfork() *)

isolate_prefork ==
    /\ Enter("isolate_prefork", {}, "prefork_return")
    /\ UNCHANGED <<capvars, idvars, fds, nsvars, i, data, inany>>

\* return 0;
prefork_return ==
    /\ pc = "prefork_return"
    /\ Return("isolate_prefork")
    /\ UNCHANGED <<capvars, idvars, fds, nsvars, i, data, conf, hist, log, pre,
                   inany>>

isolate_postfork ==
    /\ Enter("isolate_postfork", {}, "postfork_return")
    /\ UNCHANGED <<capvars, idvars, fds, nsvars, i, data, inany>>

\* return;
postfork_return ==
    /\ pc = "postfork_return"
    /\ Return("isolate_postfork")
    /\ UNCHANGED <<capvars, idvars, fds, nsvars, i, data, conf, hist, log, pre,
                   inany>>

----------------------------------------------------------------------------
(* The process as the host starts it *)

InitRest ==
    /\ mnt_ns = "origin" /\ root = "/" /\ user_ns = "origin"
    /\ dumpable = TRUE /\ seccomp = "none"
    /\ pc = "idle" /\ i = 0 /\ data = NoData
    /\ stage = 0 /\ hist = <<>> /\ log = <<>>
    /\ pre = Snapshot
    /\ inany = [fn |-> "none"]

\* descriptors the parent may leave open: the standard streams, or all but
\* stdin, and up to two of the descriptors above them
InheritedFds ==
    {S \cup T : S \in {{0, 1, 2}, {1, 2}},
                T \in {X \in SUBSET (3..MaxFd) : Cardinality(X) <= 2}}

\* capability sets after execve(), <<permitted, effective>>: the effective
\* set is the permitted set or empty
StartCaps ==
    {<<{}, {}>>, <<CapPool, CapPool>>, <<CapPool, {}>>, <<{CAP_SETUID}, {CAP_SETUID}>>}

Ids == 0..MaxId

\* @use_userns and @userns as the host may pass them: no user namespace, a
\* new one (empty path), or the one at a path
UserNsArgs == {<<FALSE, "">>, <<TRUE, "">>, <<TRUE, "/proc/1/ns/user">>}

\* Either the descriptors and --fd vary (a root process that is to become
\* user 1), or the identities and capabilities do (descriptors {0,1,2,5,7},
\* --fd 5): the stages that read the one never read the other.
Init ==
    /\ \/ /\ fds \in InheritedFds
          /\ conf \in [fd : (-1)..MaxFd, uid : {1}, gid : {1},
                      use_userns : {FALSE}, userns : {""}]
          /\ cur_uid = 0 /\ cur_gid = 0 /\ cur_groups = {0}
          /\ cap_permitted = CapPool /\ cap_effective = CapPool
       \/ /\ fds = {0, 1, 2, 5, 7}
          /\ conf \in {[fd |-> 5, uid |-> u, gid |-> g,
                       use_userns |-> n[1], userns |-> n[2]] :
                          u \in Ids, g \in Ids, n \in UserNsArgs}
          /\ cur_uid \in Ids /\ cur_gid = cur_uid /\ cur_groups \in {{}, {0}}
          /\ \E c \in StartCaps : cap_permitted = c[1] /\ cap_effective = c[2]
    /\ cap_inheritable = {}
    /\ cap_bset = CapPool
    /\ InitRest

Next ==
    \/ isolate_initial
    \/ initial_close
    \/ isolate_user
    \/ user_setgroups
    \/ user_setgid
    \/ user_setuid
    \/ isolate_prefork
    \/ prefork_return
    \/ isolate_postfork
    \/ postfork_return

Spec == Init /\ [][Next]_vars

----------------------------------------------------------------------------
(* The two static helpers called on their own, from any capability state *)

MaxHelperCalls == 2

KeepMasks == SUBSET {2, CAP_SETPCAP, 34}

InitCaps ==
    /\ cap_permitted \in SUBSET {2, CAP_SETPCAP, 34}
    /\ cap_effective \in SUBSET cap_permitted
    /\ cap_inheritable \in {{}, {2, 34}}
    /\ cap_bset \in {{}, {2, CAP_SETPCAP, 34}, {34}}
    /\ cur_uid = 0 /\ cur_gid = 0 /\ cur_groups = {}
    /\ fds = {0, 1, 2}
    /\ conf = [fd |-> -1, uid |-> 0, gid |-> 0, use_userns |-> FALSE, userns |-> ""]
    /\ InitRest

NextCaps ==
    \/ \E K \in KeepMasks : Len(hist) < MaxHelperCalls /\ drop_caps_ep_except(K)
    \/ drop_capget
    \/ drop_capset
    \/ Len(hist) < MaxHelperCalls /\ clamp_caps
    \/ clamp_prctl
    \/ clamp_capget
    \/ clamp_capset

SpecCaps == InitCaps /\ [][NextCaps]_vars

----------------------------------------------------------------------------
(* Every function of the file, called in any order *)

MaxMixedCalls == 2

MixedMasks == {{}, {CAP_SETUID}, {CAP_SETGID, CAP_SETUID, CAP_SETPCAP, 34}}

InitAll ==
    /\ \E c \in StartCaps : cap_permitted = c[1] /\ cap_effective = c[2]
    /\ cap_inheritable \in {{}, {2}}
    /\ cap_bset = CapPool
    /\ fds = {0, 1, 2, 5, 7}
    /\ conf \in [fd : {5}, uid : {0, 1}, gid : {1},
                use_userns : {FALSE}, userns : {""}]
    /\ cur_uid \in {0, 1} /\ cur_gid = cur_uid /\ cur_groups = {0}
    /\ InitRest

NextAll ==
    \/ Len(hist) < MaxMixedCalls /\ isolate_initial
    \/ initial_close
    \/ Len(hist) < MaxMixedCalls /\ isolate_user
    \/ user_setgroups
    \/ user_setgid
    \/ user_setuid
    \/ Len(hist) < MaxMixedCalls /\ isolate_prefork
    \/ prefork_return
    \/ Len(hist) < MaxMixedCalls /\ isolate_postfork
    \/ postfork_return
    \/ \E K \in MixedMasks : Len(hist) < MaxMixedCalls /\ drop_caps_ep_except(K)
    \/ drop_capget
    \/ drop_capset
    \/ Len(hist) < MaxMixedCalls /\ clamp_caps
    \/ clamp_prctl
    \/ clamp_capget
    \/ clamp_capset

SpecAll == InitAll /\ [][NextAll]_vars

----------------------------------------------------------------------------
(* inany.c: addresses that are IPv6 or IPv4-mapped IPv6 *)

\* A union inany_addr is its eight 16-bit groups in network order; a struct
\* in_addr is two groups.  A null pointer is the empty tuple.
NULL == <<>>

isovars == <<cap_effective, cap_permitted, cap_inheritable, cap_bset,
             cur_uid, cur_gid, cur_groups, fds,
             mnt_ns, root, user_ns, dumpable, seccomp,
             pc, i, data, conf, stage, hist, log, pre>>

\* inany_v4(): the IPv4 address inside an IPv4-mapped address, else NULL
inany_v4(a) ==
    IF (\A k \in 1..5 : a[k] = 0) /\ a[6] = 65535 THEN <<a[7], a[8]>> ELSE NULL

\* inany_is_unspecified(): 0.0.0.0 or ::
inany_is_unspecified(a) ==
    \/ inany_v4(a) # NULL /\ inany_v4(a) = <<0, 0>>
    \/ \A k \in 1..8 : a[k] = 0

\* inany_equals(): the sixteen bytes are the same
inany_equals(a, b) == \A k \in 1..8 : a[k] = b[k]

\* mutant: && in the place of || in the test for an unspecified address
inany_matches_and(a, b) ==
    IF a = NULL \/ b = NULL THEN TRUE
    ELSE IF inany_is_unspecified(a) /\ inany_is_unspecified(b)
         THEN (inany_v4(a) # NULL) = (inany_v4(b) # NULL)
         ELSE inany_equals(a, b)

inany_matches(a, b) ==
    IF a = NULL \/ b = NULL THEN TRUE
    ELSE IF inany_is_unspecified(a) \/ inany_is_unspecified(b)
         THEN (inany_v4(a) # NULL) = (inany_v4(b) # NULL)
         ELSE inany_equals(a, b)

\* Text is a tuple of characters.
T_1234   == <<"1", ".", "2", ".", "3", ".", "4">>
T_any4   == <<"0", ".", "0", ".", "0", ".", "0">>
T_any6   == <<":", ":">>
T_lo6    == <<":", ":", "1">>
T_mapped == <<":", ":", "f", "f", "f", "f", ":", "1", ".", "2", ".", "3", ".", "4">>
T_short  == <<"1", ".", "2", ".", "3">>

\* inet_pton() of libc on the texts above: the parsed address, or NULL when
\* it returns 0 (any other text of the model is not an address)
inet_pton(af, s) ==
    IF af = "AF_INET"
    THEN CASE s = T_1234 -> <<258, 772>>
           [] s = T_any4 -> <<0, 0>>
           [] OTHER -> NULL
    ELSE CASE s = T_any6 -> <<0, 0, 0, 0, 0, 0, 0, 0>>
           [] s = T_lo6 -> <<0, 0, 0, 0, 0, 0, 0, 1>>
           [] s = T_mapped -> <<0, 0, 0, 0, 0, 65535, 258, 772>>
           [] OTHER -> NULL

\* inany_pton(): return value and *dst
inany_pton(src, dst) ==
    IF inet_pton("AF_INET", src) # NULL
    THEN [ret |-> 1,
          dst |-> <<0, 0, 0, 0, 0, 65535>> \o inet_pton("AF_INET", src)]
    ELSE IF inet_pton("AF_INET6", src) # NULL
         THEN [ret |-> 1, dst |-> inet_pton("AF_INET6", src)]
         ELSE [ret |-> 0, dst |-> dst]

\* size of the buffer astr[], MAX(INET_ADDRSTRLEN, INET6_ADDRSTRLEN)
INANY_ADDRSTRLEN == 46

\* an unsigned long is kept exactly below ULongSat; ULongSat stands for
\* every larger value up to ULONG_MAX
ULongSat == 1000

Digits == <<"0", "1", "2", "3", "4", "5", "6", "7", "8", "9">>
IsDigit(c) == \E k \in 1..10 : Digits[k] = c
DigitVal(c) == (CHOOSE k \in 1..10 : Digits[k] = c) - 1
IsSpace(c) == c = " "

\* strcspn(s, c): length of the start of s that has no c
strcspn(s, c) ==
    IF \E k \in 1..Len(s) : s[k] = c
    THEN (CHOOSE k \in 1..Len(s) : s[k] = c /\ \A j \in 1..(k - 1) : s[j] # c) - 1
    ELSE Len(s)

RECURSIVE SkipSpace(_, _)
SkipSpace(s, k) == IF k <= Len(s) /\ IsSpace(s[k]) THEN SkipSpace(s, k + 1) ELSE k

RECURSIVE ScanDigits(_, _)
ScanDigits(s, k) == IF k <= Len(s) /\ IsDigit(s[k]) THEN ScanDigits(s, k + 1) ELSE k

RECURSIVE DigitsValue(_, _, _, _)
DigitsValue(s, k, e, acc) ==
    IF k >= e THEN acc
    ELSE DigitsValue(s, k + 1, e,
                     IF acc * 10 + DigitVal(s[k]) > ULongSat
                     THEN ULongSat ELSE acc * 10 + DigitVal(s[k]))

\* strtoul(s, &end, 10) of libc: white space, an optional sign, decimal
\* digits.  val is the value, end the index of the first character not
\* converted (Len(s) + 1: the terminating NUL), errno what it sets.  With no
\* digits nothing is converted: 0 and end = s.  More than 20 digits do not
\* fit 64 bits (ERANGE); the negation of a non-zero value wraps to a large one.
strtoul(s) ==
    LET b == SkipSpace(s, 1)
        neg == b <= Len(s) /\ s[b] = "-"
        d == IF b <= Len(s) /\ s[b] \in {"+", "-"} THEN b + 1 ELSE b
        e == ScanDigits(s, d)
        mag == DigitsValue(s, d, e, 0)
    IN  IF e = d THEN [val |-> 0, end |-> 1, errno |-> ""]
        ELSE IF e - d > 20 THEN [val |-> ULongSat, end |-> e, errno |-> "ERANGE"]
        ELSE [val |-> IF neg /\ mag # 0 THEN ULongSat ELSE mag,
              end |-> e, errno |-> ""]

\* inany_prefix_pton(): return value, *dst and *prefix_len, for the caller's
\* *dst and *prefix_len at the call
inany_prefix_pton(src, dst, prefix_len) ==
    LET alen == strcspn(src, "/")
        astr == SubSeq(src, 1, alen)
        pstr == SubSeq(src, alen + 2, Len(src))
        n == strtoul(pstr)
        plen == n.val
        a6 == inet_pton("AF_INET6", astr)
        any == inany_pton(astr, dst)
        fail(d) == [ret |-> 0, dst |-> d, prefix_len |-> prefix_len]
    IN  IF alen >= INANY_ADDRSTRLEN THEN fail(dst)
        ELSE IF alen = Len(src) THEN fail(dst)
        ELSE IF n.errno # "" \/ n.end <= Len(pstr) \/ plen > 128 THEN fail(dst)
        ELSE IF a6 # NULL
             THEN IF inany_v4(a6) # NULL /\ plen < 96
                  THEN fail(a6)
                  ELSE [ret |-> 1, dst |-> a6, prefix_len |-> plen % 256]
        ELSE IF any.ret = 1
             THEN IF plen > 32
                  THEN fail(any.dst)
                  ELSE [ret |-> 1, dst |-> any.dst, prefix_len |-> (plen + 96) % 256]
        ELSE fail(dst)

\* the addresses given to inany_matches(): NULL, ::, 0.0.0.0, ::1, 1.2.3.4,
\* 10.0.0.1 and 2001:db8::1
Addrs ==
    {NULL,
     <<0, 0, 0, 0, 0, 0, 0, 0>>,
     <<0, 0, 0, 0, 0, 65535, 0, 0>>,
     <<0, 0, 0, 0, 0, 0, 0, 1>>,
     <<0, 0, 0, 0, 0, 65535, 258, 772>>,
     <<0, 0, 0, 0, 0, 65535, 2560, 1>>,
     <<8193, 3512, 0, 0, 0, 0, 0, 1>>}

\* the texts given as an address: the six above, the empty text, and texts
\* of INANY_ADDRSTRLEN - 1 and INANY_ADDRSTRLEN characters
AddrTexts ==
    {T_1234, T_any4, T_any6, T_lo6, T_mapped, T_short, <<>>,
     [k \in 1..(INANY_ADDRSTRLEN - 1) |-> "1"],
     [k \in 1..INANY_ADDRSTRLEN |-> "1"]}

\* the texts given after the "/"
LenTexts ==
    {<<>>, <<"0">>, <<"8">>, <<"3", "2">>, <<"3", "3">>, <<"9", "5">>,
     <<"9", "6">>, <<"1", "2", "8">>, <<"1", "2", "9">>, <<"0", "8">>,
     <<"+", "8">>, <<" ", "8">>, <<"-", "0">>, <<"-", "1">>, <<"+">>,
     <<"8", "x">>, <<"1", "/", "2">>, [k \in 1..21 |-> "9"]}

\* the texts given to inany_prefix_pton(): with and without "/"
PrefixTexts ==
    AddrTexts \cup {a \o <<"/">> \o l : a \in AddrTexts, l \in LenTexts}

\* what the caller's buffers hold at the call
Dst0 == <<61166, 61166, 61166, 61166, 61166, 61166, 61166, 61166>>
PrefixLen0 == {0, 255}

call_inany_matches ==
    /\ \E a \in Addrs, b \in Addrs :
          inany' = [fn |-> "inany_matches", a |-> a, b |-> b,
                    ret |-> inany_matches(a, b)]
    /\ UNCHANGED isovars

call_inany_pton ==
    /\ \E s \in AddrTexts :
          inany' = [fn |-> "inany_pton", src |-> s,
                    ret |-> inany_pton(s, Dst0).ret,
                    dst |-> inany_pton(s, Dst0).dst]
    /\ UNCHANGED isovars

call_inany_prefix_pton ==
    /\ \E s \in PrefixTexts, p \in PrefixLen0 :
          inany' = [fn |-> "inany_prefix_pton", src |-> s, prefix_len0 |-> p,
                    ret |-> inany_prefix_pton(s, Dst0, p).ret,
                    dst |-> inany_prefix_pton(s, Dst0, p).dst,
                    prefix_len |-> inany_prefix_pton(s, Dst0, p).prefix_len]
    /\ UNCHANGED isovars

InitInany ==
    /\ cap_permitted = {} /\ cap_effective = {}
    /\ cap_inheritable = {} /\ cap_bset = {}
    /\ cur_uid = 1 /\ cur_gid = 1 /\ cur_groups = {}
    /\ fds = {0, 1, 2}
    /\ conf = [fd |-> -1, uid |-> 1, gid |-> 1, use_userns |-> FALSE, userns |-> ""]
    /\ InitRest

NextInany ==
    \/ call_inany_matches
    \/ call_inany_pton
    \/ call_inany_prefix_pton

SpecInany == InitInany /\ [][NextInany]_vars

----------------------------------------------------------------------------
(* Vocabulary of the properties *)

\* the function called last
CurFn == IF hist = <<>> THEN "none" ELSE Last(hist).fn

\* the last call made was of fn and it has returned to the caller
Returned(fn) == CurFn = fn /\ pc = "idle"

\* the last call made was of fn and it terminated the process
Died(fn) == CurFn = fn /\ pc = "dead"

\* result of the last system call attempted by the current call
LastErrno == Last(log)[3]

\* the calls so far are the stages in their documented order, each once
Ordered(h) ==
    /\ Len(h) <= Len(StageOrder)
    /\ \A k \in 1..Len(h) : h[k].fn = StageOrder[k]

Recognized == 0..CapLastCap

----------------------------------------------------------------------------
(* Properties *)

\* C1: when drop_caps_ep_except(K) has returned, the effective set and the
\* permitted set are each within K and within their value before the call.
C1_RestrictSubset ==
    Returned("drop_caps_ep_except") =>
        /\ cap_effective \subseteq (pre.effective \cap Last(hist).arg)
        /\ cap_permitted \subseteq (pre.permitted \cap Last(hist).arg)

C1_Witness ==
    /\ Returned("drop_caps_ep_except")
    /\ Last(hist).arg = {CAP_SETPCAP, 34}
    /\ pre.permitted = {2, CAP_SETPCAP, 34}
    /\ pre.effective = {2, 34}
    /\ cap_effective = {34}
    /\ cap_permitted = {CAP_SETPCAP, 34}

\* C2: no step of any function adds a capability to the effective,
\* permitted, inheritable or bounding set, gives back a root directory or a
\* mount or user namespace the process has left, or changes a syscall filter
\* that is installed.
C2_PrivilegeOnlyDecreases ==
    [][/\ cap_effective' \subseteq cap_effective
       /\ cap_permitted' \subseteq cap_permitted
       /\ cap_inheritable' \subseteq cap_inheritable
       /\ cap_bset' \subseteq cap_bset
       /\ (root # "/" => root' = root)
       /\ (mnt_ns # "origin" => mnt_ns' = mnt_ns)
       /\ (user_ns # "origin" => user_ns' = user_ns)
       /\ (seccomp # "none" => seccomp' = seccomp)]_vars

C2_Witness ==
    /\ Len(hist) = 2
    /\ hist[1].fn = "drop_caps_ep_except"
    /\ hist[1].arg = {CAP_SETGID, CAP_SETUID, CAP_SETPCAP, 34}
    /\ Returned("isolate_user")
    /\ pre.effective = {CAP_SETGID, CAP_SETUID, CAP_SETPCAP, 34}
    /\ pre.uid = 0
    /\ cur_uid = 1
    /\ cap_effective = {}
    /\ cap_permitted = {}

\* the number of the last stage done follows the calls made
C3_StageInv ==
    Ordered(hist) => stage = (IF pc = "idle" THEN Len(hist) ELSE Len(hist) - 1)

\* one step at a time, and none after the fourth stage
C3_StageStep ==
    Ordered(hist') =>
        /\ stage' \in {stage, stage + 1}
        /\ (stage = Len(StageOrder) => UNCHANGED vars)

\* C3: while the calls made are the stages in order, the number of the
\* last completed stage is the number of calls made (one less while the
\* last call is running or has terminated the process); it moves by one step
\* at a time, never back, and not at all once the fourth stage is done.
C3_Pipeline == [](C3_StageInv) /\ [][C3_StageStep]_vars

C3_Witness == Ordered(hist) /\ stage = 4 /\ pc = "idle"

\* isolate_user() of call k has set the GID or the UID
ChangedIdentity(k) ==
    /\ hist[k].fn = "isolate_user"
    /\ \/ k < Len(hist)
       \/ pc = "idle"
       \/ \E j \in 1..Len(log) : log[j][1] \in {"setgid", "setuid"} /\ log[j][3] = "OK"

\* no descriptor is open but the standard streams and the one of --fd
Pruned == fds \subseteq ({0, 1, 2} \cup {conf.fd})

C4_Body ==
    /\ \A j, k \in 1..Len(hist) : j # k => hist[j].fn # hist[k].fn
    /\ (\E k \in 1..Len(hist) : ChangedIdentity(k)) => Pruned
    /\ seccomp # "none" => (root # "/" /\ mnt_ns # "origin")

\* C4 as stated: whatever calls are made, each stage has run at most once,
\* the identity is changed only with the descriptors pruned, the filter is
\* installed only with the root pivoted.
C4_OrderEnforced == C4_Body

\* C4, amended: the same, for calls made in the documented order.
C4_OrderedCalls == Ordered(hist) => C4_Body

C4_Witness ==
    /\ Ordered(hist)
    /\ Returned("isolate_user")
    /\ pre.uid = 0 /\ cur_uid = 1
    /\ fds = {0, 1, 2, 5}

\* names of the system calls the current call has attempted, in order
LogNames == [k \in 1..Len(log) |-> log[k][1]]

\* C5: isolate_user() attempts setgroups, setgid, setuid in this order; a
\* call made as UID 0 holding CAP_SETGID and CAP_SETUID, where leaving UID 0
\* clears the capabilities, returns with the GID and the UID at their
\* targets, and terminates only for a failure that is not one of permission.
C5_GidBeforeUid ==
    CurFn = "isolate_user" =>
        /\ LogNames = SubSeq(<<"setgroups", "setgid", "setuid">>, 1, Len(log))
        /\ (pre.uid = 0 /\ {CAP_SETGID, CAP_SETUID} \subseteq pre.effective) =>
              /\ pc = "idle" => (cur_gid = conf.gid /\ cur_uid = conf.uid)
              /\ pc = "dead" => LastErrno # "EPERM"

C5_Witness ==
    /\ Returned("isolate_user")
    /\ pre.uid = 0 /\ pre.gid = 0
    /\ {CAP_SETGID, CAP_SETUID} \subseteq pre.effective
    /\ conf.uid = 1 /\ conf.gid = 1
    /\ cur_uid = 1 /\ cur_gid = 1
    /\ CAP_SETGID \notin cap_effective

\* C6: in isolate_user(), setgroups() failing with EPERM does not terminate
\* the process, and the call then returns only with the GID and the UID
\* set; setgroups() failing otherwise terminates it at once, the GID and the
\* UID being as before.
C6_GroupsTolerated ==
    (CurFn = "isolate_user" /\ log # <<>>) =>
        /\ log[1][1] = "setgroups"
        /\ log[1][3] = "EPERM" =>
              /\ ~(pc = "dead" /\ Len(log) = 1)
              /\ pc = "idle" => (cur_gid = conf.gid /\ cur_uid = conf.uid /\ Len(log) = 3)
        /\ log[1][3] \notin {"OK", "EPERM"} =>
              /\ pc = "dead" /\ Len(log) = 1
              /\ cur_gid = pre.gid /\ cur_uid = pre.uid

C6_Witness ==
    /\ Returned("isolate_user")
    /\ log[1] = <<"setgroups", 0, "EPERM">>
    /\ log[2] = <<"setgid", conf.gid, "OK">>
    /\ log[3] = <<"setuid", conf.uid, "OK">>
    /\ pre.uid = 0 /\ cur_uid = 1
    /\ cur_gid = conf.gid

\* C7: when isolate_initial() has returned, the open descriptors are the
\* ones that were open at the call intersected with {0, 1, 2, d}.
C7_DescriptorsPruned ==
    Returned("isolate_initial") =>
        /\ fds = pre.fds \cap ({0, 1, 2} \cup {conf.fd})
        /\ \A f \in fds : f > 2 => f = conf.fd
        /\ \A f \in pre.fds : f \in {0, 1, 2, conf.fd} => f \in fds

C7_Witness ==
    /\ Returned("isolate_initial")
    /\ pre.fds = {0, 1, 2, 5, 7}
    /\ conf.fd = 5
    /\ fds = {0, 1, 2, 5}

\* C8: when clamp_caps() has returned, the inheritable set is empty; the
\* bounding set holds no capability the kernel recognizes if the call was
\* made with CAP_SETPCAP, and is unchanged if it was made without; a call
\* made without CAP_SETPCAP is not terminated by the missing permission.
C8_ClampResult ==
    /\ Returned("clamp_caps") =>
          /\ cap_inheritable = {}
          /\ CAP_SETPCAP \in pre.effective => cap_bset \cap Recognized = {}
          /\ CAP_SETPCAP \notin pre.effective => cap_bset = pre.bset
    /\ (Died("clamp_caps") /\ CAP_SETPCAP \notin pre.effective) => LastErrno # "EPERM"

C8_Witness ==
    /\ Returned("clamp_caps")
    /\ CAP_SETPCAP \in pre.effective
    /\ pre.bset = {2, CAP_SETPCAP, 34}
    /\ pre.inheritable = {2, 34}
    /\ cap_bset = {}
    /\ cap_inheritable = {}

C8_WitnessNoPermission ==
    /\ Returned("clamp_caps")
    /\ CAP_SETPCAP \notin pre.effective
    /\ pre.bset = {2, CAP_SETPCAP, 34}
    /\ pre.inheritable = {2, 34}
    /\ cap_bset = pre.bset
    /\ cap_inheritable = {}

\* C9: in clamp_caps(), a drop that fails with EINVAL or EPERM does not
\* end the loop: capget() is reached only after the drop of each index
\* 0..63 was attempted, once and in order, and the call then returns with
\* the inheritable set empty; a drop failing otherwise terminates the process.
C9_ClampTolerates ==
    CurFn = "clamp_caps" =>
        /\ \A k \in 1..Len(log) :
              (log[k][1] = "prctl" /\ log[k][3] \notin {"OK", "EINVAL", "EPERM"})
                  => (pc = "dead" /\ k = Len(log))
        /\ (pc = "dead" /\ log[Len(log)][1] = "prctl")
              => LastErrno \notin {"OK", "EINVAL", "EPERM"}
        /\ pc \in {"clamp_capget", "clamp_capset", "idle"} =>
              /\ Len(log) >= 64
              /\ \A k \in 1..64 : log[k][1] = "prctl" /\ log[k][2] = k - 1
        /\ pc = "idle" =>
              /\ Len(log) = 66
              /\ log[65][1] = "capget" /\ log[66][1] = "capset"
              /\ cap_inheritable = {}

C9_Witness ==
    /\ Returned("clamp_caps")
    /\ pre.inheritable # {}
    /\ cap_inheritable = {}
    /\ log[1][3] = "OK"
    /\ log[64] = <<"prctl", 63, "EINVAL">>

C9_WitnessEperm ==
    /\ Returned("clamp_caps")
    /\ pre.inheritable # {}
    /\ cap_inheritable = {}
    /\ \A k \in 1..64 : log[k][3] = "EPERM"

\* C10: when drop_caps_ep_except(K) is called again right after it has
\* returned, with the same K, the second call is not refused by the
\* kernel and returns with the effective, permitted and inheritable sets the
\* first call left.
C10_RestrictIdempotent ==
    (/\ Len(hist) >= 2
     /\ hist[Len(hist)].fn = "drop_caps_ep_except"
     /\ hist[Len(hist) - 1] = hist[Len(hist)]) =>
        /\ pc = "idle" =>
              /\ cap_effective = pre.effective
              /\ cap_permitted = pre.permitted
              /\ cap_inheritable = pre.inheritable
        /\ pc = "dead" => LastErrno # "EPERM"

C10_Witness ==
    /\ Len(hist) = 2
    /\ hist[1] = hist[2]
    /\ Returned("drop_caps_ep_except")
    /\ Last(hist).arg = {2, 34}
    /\ cap_permitted = {2, 34}
    /\ cap_effective = {34}
    /\ cap_inheritable = {2, 34}

\* C11: when isolate_prefork has returned, the process is in a mount
\* namespace of its own, not the one it was started in, and its root is no
\* longer the original root directory.
C11_PreforkIsolates ==
    Returned("isolate_prefork") => (mnt_ns # "origin" /\ root # "/")

\* C12: when isolate_postfork has returned, core dumps are disabled and a
\* syscall filter is installed, the filter being installed only once core
\* dumps are disabled; and no step removes or changes an installed filter.
C12_PostforkSeals ==
    /\ [](Returned("isolate_postfork") => (dumpable = FALSE /\ seccomp # "none"))
    /\ [][(seccomp = "none" /\ seccomp' # "none") => dumpable = FALSE]_vars
    /\ [][seccomp # "none" => seccomp' = seccomp]_vars

\* C13: when isolate_user was called with use_userns set and has returned,
\* the process is in the user namespace at the given path, or in a new one
\* when the path is empty; when use_userns is not set, the user namespace
\* is the one the process was in at the call.
C13_UserNamespace ==
    Returned("isolate_user") =>
        /\ (conf.use_userns /\ conf.userns # "") => user_ns = conf.userns
        /\ (conf.use_userns /\ conf.userns = "") =>
              (user_ns # pre.user_ns /\ user_ns # "origin")
        /\ ~conf.use_userns => user_ns = pre.user_ns

\* a logged system call failed with an error the source does not tolerate
\* (tolerated: EPERM of setgroups, EINVAL and EPERM of prctl)
Fatal(e) ==
    /\ e[3] # "OK"
    /\ ~(e[1] = "setgroups" /\ e[3] = "EPERM")
    /\ ~(e[1] = "prctl" /\ e[3] \in {"EINVAL", "EPERM"})

\* C14: within one call, a system call that fails with an error that is not
\* tolerated is the last one attempted and the process is dead; after a
\* failed setgid there is no setuid, after a failed capget no capset; and
\* no system call is attempted twice with the same argument.
C14_FailFast ==
    /\ \A k \in 1..Len(log) :
          Fatal(log[k]) =>
              /\ pc = "dead"
              /\ k = Len(log)
              /\ log[k][1] = "setgid" => \A j \in 1..Len(log) : log[j][1] # "setuid"
              /\ log[k][1] = "capget" => \A j \in 1..Len(log) : log[j][1] # "capset"
    /\ Cardinality({<<log[k][1], log[k][2]>> : k \in 1..Len(log)}) = Len(log)

\* setgroups succeeded, setgid failed: the process died with its UID
\* unchanged although setuid would have been permitted
C14_Witness ==
    /\ Died("isolate_user")
    /\ Len(log) = 2
    /\ log[1] = <<"setgroups", 0, "OK">>
    /\ log[2][1] = "setgid" /\ log[2][3] # "OK"
    /\ cur_uid = pre.uid /\ cur_uid # conf.uid
    /\ CAP_SETUID \in cap_effective

\* capget failed: the process died with its capability sets as they were
C14_WitnessCapget ==
    /\ Died("drop_caps_ep_except")
    /\ Len(log) = 1
    /\ log[1][1] = "capget" /\ log[1][3] # "OK"
    /\ Last(hist).arg = {}
    /\ cap_effective = pre.effective /\ cap_effective # {}

\* C15: when drop_caps_ep_except(K) has returned, for every index c in 0..63
\* capability c is in the effective (permitted) set exactly if it was there
\* at the call and c is in K; and the data handed to capset holds, in word w
\* at bit b, the capability 32 * w + b under the same condition.
C15_RestrictExact ==
    /\ Returned("drop_caps_ep_except") =>
          \A c \in 0..63 :
              /\ c \in cap_effective <=> (c \in pre.effective /\ c \in Last(hist).arg)
              /\ c \in cap_permitted <=> (c \in pre.permitted /\ c \in Last(hist).arg)
    /\ pc = "drop_capset" =>
          \A w \in 0..1 : \A b \in 0..31 :
              /\ b \in data[w].effective <=>
                    ((32 * w + b) \in pre.effective /\ (32 * w + b) \in Last(hist).arg)
              /\ b \in data[w].permitted <=>
                    ((32 * w + b) \in pre.permitted /\ (32 * w + b) \in Last(hist).arg)

\* {2, 8, 34} restricted to {34}: only the capability of the second word stays
C15_Witness ==
    /\ Returned("drop_caps_ep_except")
    /\ pre.effective = {2, CAP_SETPCAP, 34}
    /\ pre.permitted = {2, CAP_SETPCAP, 34}
    /\ Last(hist).arg = {34}
    /\ cap_effective = {34}
    /\ cap_permitted = {34}

\* C16: during and after clamp_caps the effective set and the permitted set
\* are what they were when it was called; the bounding set and the
\* inheritable set are the only ones it reduces, and it adds to neither.
C16_ClampKeepsEP ==
    CurFn = "clamp_caps" =>
        /\ cap_effective = pre.effective
        /\ cap_permitted = pre.permitted
        /\ cap_bset \subseteq pre.bset
        /\ cap_inheritable \subseteq pre.inheritable

C16_Witness ==
    /\ Returned("clamp_caps")
    /\ cap_effective = {2, CAP_SETPCAP, 34} /\ pre.effective = cap_effective
    /\ cap_permitted = {2, CAP_SETPCAP, 34} /\ pre.permitted = cap_permitted
    /\ pre.bset # {} /\ cap_bset = {}
    /\ pre.inheritable # {} /\ cap_inheritable = {}

\* C17: during and after drop_caps_ep_except(K), for every K, the
\* inheritable set and the bounding set are what they were at the call.
C17_RestrictKeepsIB ==
    CurFn = "drop_caps_ep_except" =>
        /\ cap_inheritable = pre.inheritable
        /\ cap_bset = pre.bset

C17_Witness ==
    /\ Returned("drop_caps_ep_except")
    /\ Last(hist).arg = {}
    /\ pre.effective # {} /\ cap_effective = {} /\ cap_permitted = {}
    /\ pre.inheritable = {2, 34} /\ cap_inheritable = {2, 34}
    /\ pre.bset = {2, CAP_SETPCAP, 34} /\ cap_bset = pre.bset

C18_WitnessUser ==
    /\ Returned("isolate_user")
    /\ cur_uid # pre.uid
    /\ mnt_ns = "origin" /\ root = "/"

\* 0.0.0.0 and ::
Unspecified == {<<0, 0, 0, 0, 0, 0, 0, 0>>, <<0, 0, 0, 0, 0, 65535, 0, 0>>}

\* the address is ::ffff:a.b.c.d
IsMapped(a) == SubSeq(a, 1, 6) = <<0, 0, 0, 0, 0, 65535>>

\* C19: inany_matches(a, b) is true when a or b is NULL; otherwise, when a
\* or b is 0.0.0.0 or ::, it is true exactly if both are IPv4-mapped or
\* neither is; otherwise it is true exactly if a = b.  It gives the same for
\* (b, a), and it is true when a = b.
C19_Matches ==
    inany.fn = "inany_matches" =>
        LET a == inany.a
            b == inany.b
            r == inany.ret
        IN  /\ (a = NULL \/ b = NULL) => r
            /\ (a # NULL /\ b # NULL /\ (a \in Unspecified \/ b \in Unspecified)) =>
                  (r <=> (IsMapped(a) <=> IsMapped(b)))
            /\ (a # NULL /\ b # NULL /\ a \notin Unspecified /\ b \notin Unspecified) =>
                  (r <=> a = b)
            /\ r = inany_matches(b, a)
            /\ a = b => r

\* 0.0.0.0 matches 1.2.3.4
C19_Witness ==
    /\ inany.fn = "inany_matches"
    /\ inany.a = <<0, 0, 0, 0, 0, 65535, 0, 0>>
    /\ inany.b = <<0, 0, 0, 0, 0, 65535, 258, 772>>
    /\ inany.ret = TRUE

\* :: does not match 1.2.3.4, and 1.2.3.4 does not match 10.0.0.1
C19_WitnessNoMatch ==
    /\ inany.fn = "inany_matches"
    /\ inany.a = <<0, 0, 0, 0, 0, 65535, 258, 772>>
    /\ inany.b \in {<<0, 0, 0, 0, 0, 0, 0, 0>>, <<0, 0, 0, 0, 0, 65535, 2560, 1>>}
    /\ inany.ret = FALSE

\* the text is a decimal number as strtoul reads one: white space and a
\* sign may come first, then at least one digit and nothing but digits
IsDecimal(l) ==
    LET b == SkipSpace(l, 1)
        d == IF b <= Len(l) /\ l[b] \in {"+", "-"} THEN b + 1 ELSE b
    IN  d <= Len(l) /\ \A k \in d..Len(l) : IsDigit(l[k])

\* what inany_prefix_pton stores and leaves, for the length read from the
\* text: IPv4 text has a length of at most 32 and stores it plus 96; IPv6
\* text stores it, and IPv4-mapped IPv6 text with less than 96 fails; the
\* stored length is in 0..128; after a failure *prefix_len is as it was
PrefixStored ==
    inany.fn = "inany_prefix_pton" =>
        LET alen == strcspn(inany.src, "/")
            astr == SubSeq(inany.src, 1, alen)
            given == strtoul(SubSeq(inany.src, alen + 2, Len(inany.src))).val
            v4 == inet_pton("AF_INET", astr) # NULL
            v6 == inet_pton("AF_INET6", astr) # NULL
        IN  /\ inany.ret \in {0, 1}
            /\ inany.ret = 1 => (v4 \/ v6) /\ given <= 128
            /\ (inany.ret = 1 /\ v4) =>
                  (given <= 32 /\ inany.prefix_len = given + 96)
            /\ (inany.ret = 1 /\ v6) => inany.prefix_len = given
            /\ (v6 /\ IsMapped(inet_pton("AF_INET6", astr)) /\ given < 96) =>
                  inany.ret = 0
            /\ inany.ret = 1 => inany.prefix_len \in 0..128
            /\ inany.ret = 0 => inany.prefix_len = inany.prefix_len0

\* C20: inany_prefix_pton returns 1 only for a text address/length whose
\* length is a decimal number of at most 128; an IPv4 address then has a
\* length of at most 32 and the length plus 96 is stored, an IPv6 address
\* has its length stored, IPv4-mapped IPv6 with a length below 96 fails; the
\* stored length is in 0..128; when 0 is returned *prefix_len is unwritten.
C20_PrefixParse ==
    /\ inany.fn = "inany_prefix_pton" /\ inany.ret = 1 =>
          LET alen == strcspn(inany.src, "/")
              pstr == SubSeq(inany.src, alen + 2, Len(inany.src))
          IN  /\ alen < Len(inany.src)
              /\ IsDecimal(pstr)
              /\ strtoul(pstr).val <= 128
    /\ PrefixStored

====
